---------------------------- MODULE Spec2Model ----------------------------
(***************************************************************************)
(* A model of the OV5640 camera-sensor driver (src/src/ov5640.rs).         *)
(*                                                                         *)
(* The driver owns an I2C (SCCB) bus endpoint and two output pins.  The    *)
(* model records what the driver asks of these collaborators:              *)
(*   i2cLog  the bus transactions issued by the call in progress (or by    *)
(*           the most recent call), each with the bus's answer;            *)
(*   pinLog  every line-set call made on the two pins, in order, over the  *)
(*           whole run;                                                    *)
(*   pinCalls  the control-line requests the caller has made, in order;    *)
(*   reply   the most recent answer of a collaborator (bus or pin).        *)
(* The driver itself is a single-threaded, blocking state machine:         *)
(*   call    the activation record of the current / most recent call;      *)
(*   pc      the position inside the call ("idle" between calls);          *)
(*   idx     the number of entries the running table loop has consumed;    *)
(*   ret     the value the most recent call returned.                      *)
(* The collaborators' answers are the environment's choice.                *)
(***************************************************************************)
EXTENDS Integers, Sequences, FiniteSets, TLC

VARIABLES call, pc, idx, i2cLog, pinLog, pinCalls, reply, ret

vars == <<call, pc, idx, i2cLog, pinLog, pinCalls, reply, ret>>

(***************************************************************************)
(* Bounds of the model.                                                    *)
(***************************************************************************)
\* number of entries of the baseline table (opaque configuration data)
BaselineLen == 3
\* number of line-set calls the caller makes in one run
MaxPinCalls == 2

(***************************************************************************)
(* crate::constants (the module is not among the source files): the        *)
(* device address, the register addresses, the identity value and the mux  *)
(* constants, and the configuration tables as opaque ordered data.         *)
(***************************************************************************)
\* 0x3c
OV5640_ADDR == 60
\* 0x300a
OV5640_REG_ID == 12298
\* 0x56
OV5640_ID == 86
\* 0x4300
OV5640_REG_FORMAT_00 == 17152
\* 0x501f
OV5640_REG_ISP_FORMAT_MUX_CTRL == 20511
OV5640_FMT_MUX_YUV422 == 0
OV5640_FMT_MUX_RGB == 1
OV5640_FMT_MUX_RAW_DPC == 3

\* base 0x3100: entries (0x3100 + i, 0x10 + i)
OV5640_INITIAL_SETTINGS == [i \in 1..BaselineLen |-> <<12544 + i, 16 + i>>]

\* a resolution table of len entries, (0x3800 + i, 16 * n + i)
ResTable(n, len) == [i \in 1..len |-> <<14336 + i, 16 * n + i>>]

QCIF_176_144 == ResTable(1, 1)
QVGA_320_240 == ResTable(2, 2)
VGA_640_480 == ResTable(3, 3)
NTSC_720_480 == ResTable(4, 1)
PAL_720_576 == ResTable(5, 2)
XGA_1024_768 == ResTable(6, 3)
P720_1280_720 == ResTable(7, 1)
P1080_1920_1080 == ResTable(8, 2)
QSXGA_2592_1944 == ResTable(9, 3)

(***************************************************************************)
(* The selector types.                                                     *)
(***************************************************************************)
Resolution ==
    {"Qcifz176_144", "Qvga320_240", "Vga640_480", "Ntsc720_480", "Pal720_576",
     "Xga1024_768", "P720_1280_720", "P1080_1920_1080", "Qsxga2592_1944"}

RawOrder == {"SBGGR8", "SGBRG8", "SGRBG8", "SRGGB8"}

Rgb565Order == {"Bggr", "Rggb", "Grrb", "Brrg", "Gbbr", "Rbbg"}

Yuv422Order == {"Yuyv", "Yvyu", "Uyvy", "Vyuy"}

Format ==
    [family : {"Raw"}, order : RawOrder]
      \cup [family : {"Rgb565"}, order : Rgb565Order]
      \cup [family : {"Yuv422"}, order : Yuv422Order]

(***************************************************************************)
(* u8 / u16 bit operations, computed bit by bit.                           *)
(***************************************************************************)
RECURSIVE BitOr(_, _)
BitOr(a, b) ==
    IF a = 0 THEN b
    ELSE IF b = 0 THEN a
    ELSE (IF a % 2 = 1 \/ b % 2 = 1 THEN 1 ELSE 0) + 2 * BitOr(a \div 2, b \div 2)

RECURSIVE BitAnd(_, _)
BitAnd(a, b) ==
    IF a = 0 \/ b = 0 THEN 0
    ELSE (IF a % 2 = 1 /\ b % 2 = 1 THEN 1 ELSE 0) + 2 * BitAnd(a \div 2, b \div 2)

RECURSIVE Shr(_, _)
Shr(a, n) == IF n = 0 THEN a ELSE Shr(a \div 2, n - 1)

(***************************************************************************)
(* Format/order encoder.                                                   *)
(***************************************************************************)
RawOrder_to_hex(order) ==
    CASE order = "SBGGR8" -> 0
      [] order = "SGBRG8" -> 1
      [] order = "SGRBG8" -> 2
      [] order = "SRGGB8" -> 3

\* Rgb565Order::to_hex giving Gbbr the code of Brrg
Rgb565Order_to_hex_DuplicateCode(order) ==
    CASE order = "Bggr" -> 0
      [] order = "Rggb" -> 1
      [] order = "Grrb" -> 2
      [] order = "Brrg" -> 3
      [] order = "Gbbr" -> 3
      [] order = "Rbbg" -> 5

Rgb565Order_to_hex(order) ==
    CASE order = "Bggr" -> 0
      [] order = "Rggb" -> 1
      [] order = "Grrb" -> 2
      [] order = "Brrg" -> 3
      [] order = "Gbbr" -> 4
      [] order = "Rbbg" -> 5

Yuv422Order_to_hex(order) ==
    CASE order = "Yuyv" -> 0
      [] order = "Yvyu" -> 1
      [] order = "Uyvy" -> 2
      [] order = "Vyuy" -> 3

\* format_bits with the RGB565 and YUV422 base offsets exchanged
format_bits_SwappedBase(f) ==
    CASE f.family = "Raw" -> RawOrder_to_hex(f.order)
      [] f.family = "Rgb565" -> BitOr(48, Rgb565Order_to_hex(f.order))
      [] f.family = "Yuv422" -> BitOr(96, Yuv422Order_to_hex(f.order))

format_bits(f) ==
    CASE f.family = "Raw" -> RawOrder_to_hex(f.order)
      [] f.family = "Rgb565" -> BitOr(96, Rgb565Order_to_hex(f.order))
      [] f.family = "Yuv422" -> BitOr(48, Yuv422Order_to_hex(f.order))

\* mux_bits with the RGB565 arm copied from the YUV422 arm
mux_bits_CopiedArm(f) ==
    CASE f.family = "Raw" -> OV5640_FMT_MUX_RAW_DPC
      [] f.family = "Rgb565" -> OV5640_FMT_MUX_YUV422
      [] f.family = "Yuv422" -> OV5640_FMT_MUX_YUV422

mux_bits(f) ==
    CASE f.family = "Raw" -> OV5640_FMT_MUX_RAW_DPC
      [] f.family = "Rgb565" -> OV5640_FMT_MUX_RGB
      [] f.family = "Yuv422" -> OV5640_FMT_MUX_YUV422

(***************************************************************************)
(* The answers of the collaborators, and the values a call returns.        *)
(***************************************************************************)
\* the bus's error type E is opaque: two distinguishable errors
BusErrors == {"E1", "E2"}
BusAnswers == {"ok"} \cup BusErrors
PinAnswers == {"ok", "fail"}
\* the bytes a one-byte bus read may deliver
ReadBytes == {0, OV5640_ID, 255}

Pending == [kind |-> "pending"]
Ok == [kind |-> "Ok"]
OkVal(b) == [kind |-> "Ok", val |-> b]
I2c(e) == [kind |-> "I2c", err |-> e]
InvalidId(id) == [kind |-> "InvalidId", id |-> id]
Gpio == [kind |-> "Gpio"]

Return(r) == pc' = "idle" /\ ret' = r

Init ==
    /\ call = [name |-> "none"]
    /\ pc = "idle"
    /\ idx = 0
    /\ i2cLog = <<>>
    /\ pinLog = <<>>
    /\ pinCalls = <<>>
    /\ reply = "none"
    /\ ret = Pending


(***************************************************************************)
(* The bus endpoint (embedded_hal blocking::i2c::Write / Read): each       *)
(* transaction is recorded with the answer the bus gave.  A failed read    *)
(* delivers no byte.                                                       *)
(***************************************************************************)
i2c_write(addr, bytes, ans) ==
    /\ i2cLog' = Append(i2cLog, [kind |-> "write", addr |-> addr,
                                 len |-> Len(bytes), bytes |-> bytes, ans |-> ans])
    /\ reply' = ans

i2c_read(addr, len, ans, data) ==
    /\ i2cLog' = Append(i2cLog, [kind |-> "read", addr |-> addr, len |-> len,
                                 bytes |-> IF ans = "ok" THEN data ELSE <<>>,
                                 ans |-> ans])
    /\ reply' = ans

\* .map_err(|e| SccbError::I2c(e)) on a bus answer
\* a bus failure reported as a control-line failure
map_err_I2c_AsGpio(ans) == IF ans = "ok" THEN Ok ELSE Gpio

map_err_I2c(ans) == IF ans = "ok" THEN Ok ELSE I2c(ans)

(***************************************************************************)
(* Bus transaction primitive.                                              *)
(***************************************************************************)
\* write_reg sending the low address byte first
write_reg_LowByteFirst(reg, val, ans) ==
    i2c_write(OV5640_ADDR, <<BitAnd(reg, 255), Shr(reg, 8), val>>, ans)

\* the bus transaction of write_reg: [reg >> 8, reg & 0xff, val] in one write
write_reg(reg, val, ans) ==
    i2c_write(OV5640_ADDR, <<Shr(reg, 8), BitAnd(reg, 255), val>>, ans)

\* the register the running read_reg reads
ReadRegArg == IF call.name = "init" THEN OV5640_REG_ID ELSE call.reg

\* the identity gate reporting the expected identity, not the observed one
init_check_id_ReportsExpected(slave_id) ==
    IF slave_id # OV5640_ID
      THEN Return(InvalidId(OV5640_ID)) /\ UNCHANGED idx
      ELSE pc' = "baseline" /\ idx' = 0 /\ UNCHANGED ret

\* init after read_reg has delivered slave_id: the identity gate
init_check_id(slave_id) ==
    IF slave_id # OV5640_ID
      THEN Return(InvalidId(slave_id)) /\ UNCHANGED idx
      ELSE pc' = "baseline" /\ idx' = 0 /\ UNCHANGED ret

\* read_reg going on to the read although the address-pointer write failed
read_reg_write_NoAbort ==
    /\ pc = "rr_write"
    /\ \E ans \in BusAnswers :
         /\ i2c_write(OV5640_ADDR, <<Shr(ReadRegArg, 8), BitAnd(ReadRegArg, 255)>>, ans)
         /\ pc' = "rr_read"
         /\ UNCHANGED ret
    /\ UNCHANGED <<call, idx, pinLog, pinCalls>>

\* read_reg, first step: the address-pointer write
read_reg_write ==
    /\ pc = "rr_write"
    /\ \E ans \in BusAnswers :
         /\ i2c_write(OV5640_ADDR, <<Shr(ReadRegArg, 8), BitAnd(ReadRegArg, 255)>>, ans)
         /\ IF ans = "ok"
              THEN pc' = "rr_read" /\ UNCHANGED ret
              ELSE Return(map_err_I2c(ans))
    /\ UNCHANGED <<call, idx, pinLog, pinCalls>>

\* read_reg with the read's error dropped: the untouched buf[0] = 0 is delivered
read_reg_read_ErrorDropped ==
    /\ pc = "rr_read"
    /\ \E ans \in BusAnswers, b \in ReadBytes :
         /\ i2c_read(OV5640_ADDR, 1, ans, <<b>>)
         /\ IF call.name = "init"
              THEN init_check_id(IF ans = "ok" THEN b ELSE 0)
              ELSE Return(OkVal(IF ans = "ok" THEN b ELSE 0)) /\ UNCHANGED idx
    /\ UNCHANGED <<call, pinLog, pinCalls>>

\* read_reg, second step: the one-byte read, and the return to the caller
read_reg_read ==
    /\ pc = "rr_read"
    /\ \E ans \in BusAnswers, b \in ReadBytes :
         /\ i2c_read(OV5640_ADDR, 1, ans, <<b>>)
         /\ IF ans # "ok"
              THEN Return(map_err_I2c(ans)) /\ UNCHANGED idx
              ELSE IF call.name = "init"
                     THEN init_check_id(b)
                     ELSE Return(OkVal(b)) /\ UNCHANGED idx
    /\ UNCHANGED <<call, pinLog, pinCalls>>

(***************************************************************************)
(* Initialization sequencer.                                               *)
(***************************************************************************)
\* init remembering that an earlier init succeeded and doing nothing then
init_call_RemembersSuccess(format, resolution) ==
    /\ pc = "idle"
    /\ call' = [name |-> "init", format |-> format, resolution |-> resolution]
    /\ idx' = 0
    /\ i2cLog' = <<>>
    /\ IF call.name = "init" /\ ret = Ok
         THEN pc' = "idle" /\ ret' = Ok
         ELSE pc' = "rr_write" /\ ret' = Pending
    /\ UNCHANGED <<pinLog, pinCalls, reply>>

\* init asserting reset on its own before it talks to the sensor
init_call_AssertsReset(format, resolution) ==
    /\ pc = "idle"
    /\ call' = [name |-> "init", format |-> format, resolution |-> resolution]
    /\ pc' = "rr_write"
    /\ idx' = 0
    /\ i2cLog' = <<>>
    /\ ret' = Pending
    /\ pinLog' = Append(pinLog, [pin |-> "rst", level |-> "high"])
    /\ UNCHANGED <<pinCalls, reply>>

init_call(format, resolution) ==
    /\ pc = "idle"
    /\ call' = [name |-> "init", format |-> format, resolution |-> resolution]
    /\ pc' = "rr_write"
    /\ idx' = 0
    /\ i2cLog' = <<>>
    /\ ret' = Pending
    /\ UNCHANGED <<pinLog, pinCalls, reply>>

\* the match on the resolution with the NTSC and PAL arms exchanged
SelectTable_SwappedArms(resolution) ==
    CASE resolution = "Qcifz176_144" -> QCIF_176_144
      [] resolution = "Qvga320_240" -> QVGA_320_240
      [] resolution = "Vga640_480" -> VGA_640_480
      [] resolution = "Ntsc720_480" -> PAL_720_576
      [] resolution = "Pal720_576" -> NTSC_720_480
      [] resolution = "Xga1024_768" -> XGA_1024_768
      [] resolution = "P720_1280_720" -> P720_1280_720
      [] resolution = "P1080_1920_1080" -> P1080_1920_1080
      [] resolution = "Qsxga2592_1944" -> QSXGA_2592_1944

\* the match on the resolution
SelectTable(resolution) ==
    CASE resolution = "Qcifz176_144" -> QCIF_176_144
      [] resolution = "Qvga320_240" -> QVGA_320_240
      [] resolution = "Vga640_480" -> VGA_640_480
      [] resolution = "Ntsc720_480" -> NTSC_720_480
      [] resolution = "Pal720_576" -> PAL_720_576
      [] resolution = "Xga1024_768" -> XGA_1024_768
      [] resolution = "P720_1280_720" -> P720_1280_720
      [] resolution = "P1080_1920_1080" -> P1080_1920_1080
      [] resolution = "Qsxga2592_1944" -> QSXGA_2592_1944

\* the table loop without the `?`: a failed write is dropped and the loop goes on
TableStep_NoAbort(table, nextPc) ==
    IF idx < Len(table)
      THEN \E ans \in BusAnswers :
             /\ write_reg(table[idx + 1][1], table[idx + 1][2], ans)
             /\ idx' = idx + 1
             /\ UNCHANGED <<pc, ret>>
      ELSE /\ pc' = nextPc
           /\ idx' = 0
           /\ UNCHANGED <<i2cLog, reply, ret>>

\* one turn of `for register in table.iter() { self.write_reg(..)?; }`:
\* either the next entry is written or the loop is left for nextPc
TableStep(table, nextPc) ==
    IF idx < Len(table)
      THEN \E ans \in BusAnswers :
             /\ write_reg(table[idx + 1][1], table[idx + 1][2], ans)
             /\ IF ans = "ok"
                  THEN idx' = idx + 1 /\ UNCHANGED <<pc, ret>>
                  ELSE Return(map_err_I2c(ans)) /\ UNCHANGED idx
      ELSE /\ pc' = nextPc
           /\ idx' = 0
           /\ UNCHANGED <<i2cLog, reply, ret>>

\* the baseline loop stopping one entry short
init_baseline_StopsShort ==
    /\ pc = "baseline"
    /\ TableStep(SubSeq(OV5640_INITIAL_SETTINGS, 1, Len(OV5640_INITIAL_SETTINGS) - 1),
                 "resolution")
    /\ UNCHANGED <<call, pinLog, pinCalls>>

init_baseline ==
    /\ pc = "baseline"
    /\ TableStep(OV5640_INITIAL_SETTINGS, "resolution")
    /\ UNCHANGED <<call, pinLog, pinCalls>>

init_resolution ==
    /\ pc = "resolution"
    /\ TableStep(SelectTable(call.resolution), "format_00")
    /\ UNCHANGED <<call, pinLog, pinCalls>>

\* the format-control write without the `?`
init_format_00_NoAbort ==
    /\ pc = "format_00"
    /\ \E ans \in BusAnswers :
         /\ write_reg(OV5640_REG_FORMAT_00, format_bits(call.format), ans)
         /\ pc' = "format_mux"
         /\ UNCHANGED ret
    /\ UNCHANGED <<call, idx, pinLog, pinCalls>>

init_format_00 ==
    /\ pc = "format_00"
    /\ \E ans \in BusAnswers :
         /\ write_reg(OV5640_REG_FORMAT_00, format_bits(call.format), ans)
         /\ IF ans = "ok"
              THEN pc' = "format_mux" /\ UNCHANGED ret
              ELSE Return(map_err_I2c(ans))
    /\ UNCHANGED <<call, idx, pinLog, pinCalls>>

\* the format-mux write retried until it succeeds
init_format_mux_Retried ==
    /\ pc = "format_mux"
    /\ \E ans \in BusAnswers :
         /\ write_reg(OV5640_REG_ISP_FORMAT_MUX_CTRL, mux_bits(call.format), ans)
         /\ IF ans = "ok"
              THEN Return(Ok)
              ELSE UNCHANGED <<pc, ret>>
    /\ UNCHANGED <<call, idx, pinLog, pinCalls>>

\* the format-mux write with its result dropped: init ends Ok(()) regardless
init_format_mux_ResultDropped ==
    /\ pc = "format_mux"
    /\ \E ans \in BusAnswers :
         /\ write_reg(OV5640_REG_ISP_FORMAT_MUX_CTRL, mux_bits(call.format), ans)
         /\ Return(Ok)
    /\ UNCHANGED <<call, idx, pinLog, pinCalls>>

init_format_mux ==
    /\ pc = "format_mux"
    /\ \E ans \in BusAnswers :
         /\ write_reg(OV5640_REG_ISP_FORMAT_MUX_CTRL, mux_bits(call.format), ans)
         /\ IF ans = "ok"
              THEN Return(Ok)
              ELSE Return(map_err_I2c(ans))
    /\ UNCHANGED <<call, idx, pinLog, pinCalls>>

(***************************************************************************)
(* Control-line driver.                                                    *)
(***************************************************************************)
\* OutputPin::set_high / set_low on the named pin
pin_set(pin, level, ans) ==
    /\ pinLog' = Append(pinLog, [pin |-> pin, level |-> level])
    /\ reply' = ans

\* .map_err(|_| SccbError::Gpio) on a pin answer
map_err_Gpio(ans) == IF ans = "ok" THEN Ok ELSE Gpio

set_rst(on) ==
    /\ pc = "idle"
    /\ Len(pinLog) < MaxPinCalls
    /\ call' = [name |-> "set_rst", on |-> on]
    /\ pinCalls' = Append(pinCalls, [line |-> "rst", on |-> on])
    /\ i2cLog' = <<>>
    /\ \E ans \in PinAnswers :
         /\ IF on THEN pin_set("rst", "high", ans) ELSE pin_set("rst", "low", ans)
         /\ ret' = map_err_Gpio(ans)
    /\ UNCHANGED <<pc, idx>>

\* set_pwdn copied from set_rst with the pin left unchanged
set_pwdn_DrivesRst(on) ==
    /\ pc = "idle"
    /\ Len(pinLog) < MaxPinCalls
    /\ call' = [name |-> "set_pwdn", on |-> on]
    /\ pinCalls' = Append(pinCalls, [line |-> "pwdn", on |-> on])
    /\ i2cLog' = <<>>
    /\ \E ans \in PinAnswers :
         /\ IF on THEN pin_set("rst", "high", ans) ELSE pin_set("rst", "low", ans)
         /\ ret' = map_err_Gpio(ans)
    /\ UNCHANGED <<pc, idx>>

set_pwdn(on) ==
    /\ pc = "idle"
    /\ Len(pinLog) < MaxPinCalls
    /\ call' = [name |-> "set_pwdn", on |-> on]
    /\ pinCalls' = Append(pinCalls, [line |-> "pwdn", on |-> on])
    /\ i2cLog' = <<>>
    /\ \E ans \in PinAnswers :
         /\ IF on THEN pin_set("pwdn", "high", ans) ELSE pin_set("pwdn", "low", ans)
         /\ ret' = map_err_Gpio(ans)
    /\ UNCHANGED <<pc, idx>>

(***************************************************************************)
(* The driver under its public operations.                                 *)
(***************************************************************************)
Next ==
    \/ \E f \in Format, r \in Resolution : init_call(f, r)
    \/ read_reg_write
    \/ read_reg_read
    \/ init_baseline
    \/ init_resolution
    \/ init_format_00
    \/ init_format_mux
    \/ \E on \in BOOLEAN : set_rst(on)
    \/ \E on \in BOOLEAN : set_pwdn(on)

Spec == Init /\ [][Next]_vars

(***************************************************************************)
(* The initialization sequencer on its own: a caller that only runs init,  *)
(* any number of times, with any format and resolution.                    *)
(***************************************************************************)
NextInit ==
    \/ \E f \in Format, r \in Resolution : init_call(f, r)
    \/ read_reg_write
    \/ read_reg_read
    \/ init_baseline
    \/ init_resolution
    \/ init_format_00
    \/ init_format_mux

SpecInit == Init /\ [][NextInit]_vars

\* the steps of a running init.  The driver is synchronous and every bus
\* transaction blocks until it completes or fails, so a running call always
\* takes its next step.
InitSteps ==
    \/ read_reg_write
    \/ read_reg_read
    \/ init_baseline
    \/ init_resolution
    \/ init_format_00
    \/ init_format_mux

SpecInitFair == SpecInit /\ WF_vars(InitSteps)

(***************************************************************************)
(* The bus transaction primitive on its own: read_reg and write_reg called *)
(* directly (they are private to the driver), on sample registers and      *)
(* values that cover both address bytes.                                   *)
(***************************************************************************)
\* 0x0000 0x0001 0x00ff 0x0100 0x0101 0x1234 0x300a 0x4300 0x501f 0xff00 0xffff
RegSamples == {0, 1, 255, 256, 257, 4660, 12298, 17152, 20511, 65280, 65535}
ValSamples == {0, 1, 86, 128, 255}

read_reg_call(reg) ==
    /\ pc = "idle"
    /\ call' = [name |-> "read_reg", reg |-> reg]
    /\ pc' = "rr_write"
    /\ i2cLog' = <<>>
    /\ ret' = Pending
    /\ UNCHANGED <<idx, pinLog, pinCalls, reply>>

write_reg_call(reg, val) ==
    /\ pc = "idle"
    /\ call' = [name |-> "write_reg", reg |-> reg, val |-> val]
    /\ pc' = "wr"
    /\ i2cLog' = <<>>
    /\ ret' = Pending
    /\ UNCHANGED <<idx, pinLog, pinCalls, reply>>

\* the body of write_reg when called directly
write_reg_body ==
    /\ pc = "wr"
    /\ \E ans \in BusAnswers :
         /\ write_reg(call.reg, call.val, ans)
         /\ Return(map_err_I2c(ans))
    /\ UNCHANGED <<call, idx, pinLog, pinCalls>>

NextReg ==
    \/ \E reg \in RegSamples : read_reg_call(reg)
    \/ \E reg \in RegSamples, val \in ValSamples : write_reg_call(reg, val)
    \/ read_reg_write
    \/ read_reg_read
    \/ write_reg_body

SpecReg == Init /\ [][NextReg]_vars

(***************************************************************************)
(* The whole public surface: init, the control lines and the two register  *)
(* primitives, called in any order.  The direct register calls take a      *)
(* small choice of registers (the identity register among them) and        *)
(* values.                                                                 *)
(***************************************************************************)
CallerRegs == {OV5640_REG_ID, 4660}
CallerVals == {0, 255}

NextAll ==
    \/ \E f \in Format, r \in Resolution : init_call(f, r)
    \/ \E reg \in CallerRegs : read_reg_call(reg)
    \/ \E reg \in CallerRegs, val \in CallerVals : write_reg_call(reg, val)
    \/ read_reg_write
    \/ read_reg_read
    \/ write_reg_body
    \/ init_baseline
    \/ init_resolution
    \/ init_format_00
    \/ init_format_mux
    \/ \E on \in BOOLEAN : set_rst(on)
    \/ \E on \in BOOLEAN : set_pwdn(on)

SpecAll == Init /\ [][NextAll]_vars

(***************************************************************************)
(* What the properties below read off the logs.                            *)
(***************************************************************************)
\* a register write as the bus must see it: high address byte, low, value
WriteEntry(reg, val, ans) ==
    [kind |-> "write", addr |-> OV5640_ADDR, len |-> 3,
     bytes |-> <<reg \div 256, reg % 256, val>>, ans |-> ans]

\* the address-pointer write of a register read
PointerEntry(reg, ans) ==
    [kind |-> "write", addr |-> OV5640_ADDR, len |-> 2,
     bytes |-> <<reg \div 256, reg % 256>>, ans |-> ans]

\* a successful one-byte read delivering b
ReadEntry(b) ==
    [kind |-> "read", addr |-> OV5640_ADDR, len |-> 1, bytes |-> <<b>>, ans |-> "ok"]

\* a failed one-byte read
FailedReadEntry(ans) ==
    [kind |-> "read", addr |-> OV5640_ADDR, len |-> 1, bytes |-> <<>>, ans |-> ans]

\* the table each resolution names
TableOf ==
    [r \in Resolution |->
       CASE r = "Qcifz176_144" -> QCIF_176_144
         [] r = "Qvga320_240" -> QVGA_320_240
         [] r = "Vga640_480" -> VGA_640_480
         [] r = "Ntsc720_480" -> NTSC_720_480
         [] r = "Pal720_576" -> PAL_720_576
         [] r = "Xga1024_768" -> XGA_1024_768
         [] r = "P720_1280_720" -> P720_1280_720
         [] r = "P1080_1920_1080" -> P1080_1920_1080
         [] r = "Qsxga2592_1944" -> QSXGA_2592_1944]

\* the register writes of a complete init, in order
ExpectedWrites(f, r) ==
    OV5640_INITIAL_SETTINGS \o TableOf[r]
      \o << <<OV5640_REG_FORMAT_00, format_bits(f)>>,
            <<OV5640_REG_ISP_FORMAT_MUX_CTRL, mux_bits(f)>> >>

\* the bus transcript of a complete init on a bus that never fails
ExpectedLog(f, r) ==
    <<PointerEntry(OV5640_REG_ID, "ok"), ReadEntry(OV5640_ID)>>
      \o [i \in 1..Len(ExpectedWrites(f, r)) |->
            WriteEntry(ExpectedWrites(f, r)[i][1], ExpectedWrites(f, r)[i][2], "ok")]

IsPrefix(s, t) == Len(s) <= Len(t) /\ s = SubSeq(t, 1, Len(s))

InInit == call.name = "init"

\* every bus transaction so far succeeded and the identity read, if made,
\* delivered the expected identity
BusAllGood ==
    /\ \A i \in 1..Len(i2cLog) : i2cLog[i].ans = "ok"
    /\ Len(i2cLog) >= 2 => i2cLog[2].bytes = <<OV5640_ID>>

\* position in the log of the format-control write of the running init
FormatPos == 2 + Len(OV5640_INITIAL_SETTINGS) + Len(TableOf[call.resolution]) + 1

(***************************************************************************)
(* C1: on a bus that answers every transaction with success and delivers   *)
(* the expected identity, init runs through exactly the identity read, the *)
(* baseline table in order, the table of the requested resolution in       *)
(* order, the format-control write and the format-mux write, and returns   *)
(* Ok exactly when that transcript is complete; an init that returned Ok   *)
(* issued exactly that transcript.                                         *)
(***************************************************************************)
C1_HappyPathWrites ==
    InInit =>
      /\ BusAllGood =>
           /\ IsPrefix(i2cLog, ExpectedLog(call.format, call.resolution))
           /\ (i2cLog = ExpectedLog(call.format, call.resolution))
                <=> (pc = "idle" /\ ret = Ok)
      /\ (pc = "idle" /\ ret = Ok) =>
           i2cLog = ExpectedLog(call.format, call.resolution)

\* init(Raw(SBGGR8), Vga640_480) has returned Ok after the full transcript
C1_Witness ==
    /\ InInit
    /\ call.format = [family |-> "Raw", order |-> "SBGGR8"]
    /\ call.resolution = "Vga640_480"
    /\ pc = "idle"
    /\ ret = Ok
    /\ Len(i2cLog) = 2 + BaselineLen + Len(VGA_640_480) + 2
    /\ i2cLog[Len(i2cLog)] = WriteEntry(OV5640_REG_ISP_FORMAT_MUX_CTRL, OV5640_FMT_MUX_RAW_DPC, "ok")

(***************************************************************************)
(* C2: when the identity read succeeds and delivers a value v other than   *)
(* the expected identity, init has returned InvalidId(v) with the observed *)
(* v, and the identity read is the last bus transaction of the call.       *)
(***************************************************************************)
C2_IdentityMismatch ==
    (/\ InInit
     /\ Len(i2cLog) >= 2
     /\ i2cLog[2].ans = "ok"
     /\ i2cLog[2].bytes # <<OV5640_ID>>)
      => /\ pc = "idle"
         /\ ret = InvalidId(i2cLog[2].bytes[1])
         /\ Len(i2cLog) = 2
         /\ i2cLog[2].kind = "read"

\* the bus delivered identity 0x00 and init returned InvalidId(0)
C2_Witness ==
    /\ InInit
    /\ pc = "idle"
    /\ i2cLog = <<PointerEntry(OV5640_REG_ID, "ok"), ReadEntry(0)>>
    /\ ret = InvalidId(0)

(***************************************************************************)
(* C3: when the write of baseline entry k (0-based) fails, init has        *)
(* returned I2c with that failure, and its register writes are the k       *)
(* successful writes of entries 0..k-1 followed by the failed attempt for  *)
(* entry k, which is the last bus transaction of the call.                 *)
(***************************************************************************)
C3_BaselineFailure ==
    \A k \in 0..(Len(OV5640_INITIAL_SETTINGS) - 1) :
      (InInit /\ Len(i2cLog) >= 3 + k /\ i2cLog[3 + k].ans # "ok")
        => /\ pc = "idle"
           /\ ret = I2c(i2cLog[3 + k].ans)
           /\ Len(i2cLog) = 3 + k
           /\ \A j \in 1..k :
                i2cLog[2 + j] = WriteEntry(OV5640_INITIAL_SETTINGS[j][1],
                                           OV5640_INITIAL_SETTINGS[j][2], "ok")
           /\ i2cLog[3 + k] = WriteEntry(OV5640_INITIAL_SETTINGS[k + 1][1],
                                         OV5640_INITIAL_SETTINGS[k + 1][2],
                                         i2cLog[3 + k].ans)

\* the write of baseline entry 1 failed with E2 after entry 0 was written
C3_Witness ==
    /\ InInit
    /\ pc = "idle"
    /\ Len(i2cLog) = 4
    /\ i2cLog[3].ans = "ok"
    /\ i2cLog[4] = WriteEntry(OV5640_INITIAL_SETTINGS[2][1],
                              OV5640_INITIAL_SETTINGS[2][2], "E2")
    /\ ret = I2c("E2")

(***************************************************************************)
(* C4: read_reg(a) issues the write of the two address bytes of a and      *)
(* then, only if that write succeeded, one read of one byte from the same  *)
(* device address; a failed write is returned as I2c with the write's      *)
(* error and no read is made; a failed read is returned as I2c with the    *)
(* read's error; no step is made twice.                                    *)
(***************************************************************************)
C4_ReadRegSteps ==
    call.name = "read_reg" =>
      /\ Len(i2cLog) <= 2
      /\ pc = "rr_write" <=> Len(i2cLog) = 0
      /\ pc = "rr_read" <=> (Len(i2cLog) = 1 /\ i2cLog[1].ans = "ok")
      /\ pc \in {"rr_write", "rr_read", "idle"}
      /\ Len(i2cLog) >= 1 => i2cLog[1] = PointerEntry(call.reg, i2cLog[1].ans)
      /\ (Len(i2cLog) >= 1 /\ i2cLog[1].ans # "ok")
           => (Len(i2cLog) = 1 /\ pc = "idle" /\ ret = I2c(i2cLog[1].ans))
      /\ Len(i2cLog) = 2 =>
           /\ pc = "idle"
           /\ i2cLog[2].kind = "read"
           /\ i2cLog[2].addr = i2cLog[1].addr
           /\ i2cLog[2].len = 1
           /\ IF i2cLog[2].ans = "ok"
                THEN ret = OkVal(i2cLog[2].bytes[1])
                ELSE ret = I2c(i2cLog[2].ans) /\ i2cLog[2] = FailedReadEntry(i2cLog[2].ans)

\* read_reg(0x1234): the pointer write succeeded and the read failed with E1
C4_Witness ==
    /\ call = [name |-> "read_reg", reg |-> 4660]
    /\ pc = "idle"
    /\ i2cLog = <<PointerEntry(4660, "ok"), FailedReadEntry("E1")>>
    /\ ret = I2c("E1")

(***************************************************************************)
(* C5: write_reg(a, v) makes exactly one bus transaction, a write to the   *)
(* device address of the three bytes [a div 256, a mod 256, v], so that    *)
(* 256 * byte0 + byte1 = a, and returns Ok on success and I2c with the     *)
(* bus's own error on failure.                                             *)
(***************************************************************************)
C5_WriteRegFrame ==
    call.name = "write_reg" =>
      /\ pc \in {"wr", "idle"}
      /\ pc = "wr" <=> i2cLog = <<>>
      /\ pc = "idle" =>
           /\ Len(i2cLog) = 1
           /\ i2cLog[1].kind = "write"
           /\ i2cLog[1].addr = OV5640_ADDR
           /\ i2cLog[1].bytes = <<call.reg \div 256, call.reg % 256, call.val>>
           /\ 256 * i2cLog[1].bytes[1] + i2cLog[1].bytes[2] = call.reg
           /\ \A i \in 1..3 : i2cLog[1].bytes[i] \in 0..255
           /\ ret = IF i2cLog[1].ans = "ok" THEN Ok ELSE I2c(i2cLog[1].ans)

\* write_reg(0x1234, 0x80) failed with E2 after sending [0x12, 0x34, 0x80]
C5_Witness ==
    /\ call = [name |-> "write_reg", reg |-> 4660, val |-> 128]
    /\ pc = "idle"
    /\ i2cLog = <<WriteEntry(4660, 128, "E2")>>
    /\ i2cLog[1].bytes = <<18, 52, 128>>
    /\ ret = I2c("E2")

(***************************************************************************)
(* The encoder's tables as the specification states them.                  *)
(***************************************************************************)
Families == {"Raw", "Rgb565", "Yuv422"}

OrdersOf(family) ==
    CASE family = "Raw" -> RawOrder
      [] family = "Rgb565" -> Rgb565Order
      [] family = "Yuv422" -> Yuv422Order

\* 0x00, 0x60, 0x30
FamilyBase(family) ==
    CASE family = "Raw" -> 0
      [] family = "Rgb565" -> 96
      [] family = "Yuv422" -> 48

CodeRange(family) ==
    CASE family = "Raw" -> 0..3
      [] family = "Rgb565" -> 0..5
      [] family = "Yuv422" -> 0..3

FamilyMux(family) ==
    CASE family = "Raw" -> OV5640_FMT_MUX_RAW_DPC
      [] family = "Rgb565" -> OV5640_FMT_MUX_RGB
      [] family = "Yuv422" -> OV5640_FMT_MUX_YUV422

\* the ordering code of a format, as its ordering's to_hex gives it
OrderCode(f) ==
    CASE f.family = "Raw" -> RawOrder_to_hex(f.order)
      [] f.family = "Rgb565" -> Rgb565Order_to_hex(f.order)
      [] f.family = "Yuv422" -> Yuv422Order_to_hex(f.order)

(***************************************************************************)
(* C6: for every format the control byte is the family base (0x00 Raw,     *)
(* 0x60 RGB565, 0x30 YUV422) OR the ordering code; the code is below 0x10, *)
(* the low nibble of the byte is the code and the rest of the byte is the  *)
(* base; within a family each code of the dense range (0..3, 0..5, 0..3)   *)
(* is the code of exactly one ordering; and the byte init writes to the    *)
(* format-control register is that byte.                                   *)
(***************************************************************************)
\* the encoder's table: control byte = base | code, nibble by nibble
ControlByteTable ==
    /\ \A f \in Format :
         /\ format_bits(f) = BitOr(FamilyBase(f.family), OrderCode(f))
         /\ OrderCode(f) < 16
         /\ OrderCode(f) \in CodeRange(f.family)
         /\ format_bits(f) % 16 = OrderCode(f)
         /\ format_bits(f) - (format_bits(f) % 16) = FamilyBase(f.family)
    /\ \A fam \in Families : \A n \in CodeRange(fam) :
         Cardinality({o \in OrdersOf(fam) :
                        OrderCode([family |-> fam, order |-> o]) = n}) = 1

C6_ControlByte ==
    /\ ControlByteTable
    /\ (InInit /\ Len(i2cLog) >= FormatPos) =>
         /\ i2cLog[FormatPos].bytes[3] % 16 = OrderCode(call.format)
         /\ i2cLog[FormatPos].bytes[3] - OrderCode(call.format)
              = FamilyBase(call.format.family)

\* init has written 0x65 to the format-control register for Rgb565(Rbbg)
C6_Witness ==
    /\ InInit
    /\ call.format = [family |-> "Rgb565", order |-> "Rbbg"]
    /\ Len(i2cLog) >= FormatPos
    /\ i2cLog[FormatPos] = WriteEntry(OV5640_REG_FORMAT_00, 101, "ok")

(***************************************************************************)
(* C7: the mux byte is the constant of the format's family (Raw: raw/DPC,  *)
(* RGB565: RGB, YUV422: YUV422), the same for every ordering of a family;  *)
(* two formats of one family differ in the control byte only in its low    *)
(* nibble; and the byte init writes to the format-mux register is the      *)
(* family's constant.                                                      *)
(***************************************************************************)
\* the encoder's table: the mux byte by family, the ordering in the low nibble
MuxByteTable ==
    /\ \A f \in Format : mux_bits(f) = FamilyMux(f.family)
    /\ \A f1, f2 \in Format :
         f1.family = f2.family =>
           /\ mux_bits(f1) = mux_bits(f2)
           /\ format_bits(f1) \div 16 = format_bits(f2) \div 16

C7_MuxByFamily ==
    /\ MuxByteTable
    /\ (InInit /\ Len(i2cLog) >= FormatPos + 1) =>
         i2cLog[FormatPos + 1].bytes[3] = FamilyMux(call.format.family)

\* init has written 0x33 and then the YUV422 mux constant for Yuv422(Vyuy)
C7_Witness ==
    /\ InInit
    /\ call.format = [family |-> "Yuv422", order |-> "Vyuy"]
    /\ Len(i2cLog) = FormatPos + 1
    /\ i2cLog[FormatPos].bytes[3] = 51
    /\ i2cLog[FormatPos + 1]
         = WriteEntry(OV5640_REG_ISP_FORMAT_MUX_CTRL, OV5640_FMT_MUX_YUV422, "ok")

(***************************************************************************)
(* C8: every control-line request makes exactly one line-set call, on the  *)
(* requested line, high for true and low for false, so the line-set calls  *)
(* of a run are the caller's requests in order, whatever init calls lie    *)
(* between them; the request returns Gpio when the line reported failure   *)
(* and Ok otherwise.                                                       *)
(***************************************************************************)
C8_ControlLines ==
    /\ Len(pinLog) = Len(pinCalls)
    /\ \A i \in 1..Len(pinCalls) :
         pinLog[i] = [pin |-> pinCalls[i].line,
                      level |-> IF pinCalls[i].on THEN "high" ELSE "low"]
    /\ call.name \in {"set_rst", "set_pwdn"} =>
         /\ pc = "idle"
         /\ reply \in PinAnswers
         /\ ret = IF reply = "ok" THEN Ok ELSE Gpio
         /\ Len(pinCalls) >= 1
         /\ pinCalls[Len(pinCalls)]
              = [line |-> IF call.name = "set_rst" THEN "rst" ELSE "pwdn", on |-> call.on]

\* power-down was set to true and then to false; the second request failed
C8_Witness ==
    /\ pinCalls = <<[line |-> "pwdn", on |-> TRUE], [line |-> "pwdn", on |-> FALSE]>>
    /\ pinLog = <<[pin |-> "pwdn", level |-> "high"], [pin |-> "pwdn", level |-> "low"]>>
    /\ call = [name |-> "set_pwdn", on |-> FALSE]
    /\ ret = Gpio

(***************************************************************************)
(* C9: in the format step the format-control register is written first     *)
(* and the format-mux register second; a failed control write ends init    *)
(* with I2c and the mux register is not written; a failed mux write after  *)
(* a successful control write ends init with I2c, and nothing is written   *)
(* after it.                                                               *)
(***************************************************************************)
C9_FormatStepOrder ==
    InInit =>
      /\ Len(i2cLog) <= FormatPos + 1
      /\ pc = "format_mux" <=> (Len(i2cLog) = FormatPos /\ i2cLog[FormatPos].ans = "ok")
      /\ Len(i2cLog) >= FormatPos =>
           /\ i2cLog[FormatPos].kind = "write"
           /\ SubSeq(i2cLog[FormatPos].bytes, 1, 2)
                = <<OV5640_REG_FORMAT_00 \div 256, OV5640_REG_FORMAT_00 % 256>>
           /\ i2cLog[FormatPos].ans # "ok" =>
                /\ Len(i2cLog) = FormatPos
                /\ pc = "idle"
                /\ ret = I2c(i2cLog[FormatPos].ans)
      /\ Len(i2cLog) = FormatPos + 1 =>
           /\ i2cLog[FormatPos].ans = "ok"
           /\ i2cLog[FormatPos + 1].kind = "write"
           /\ SubSeq(i2cLog[FormatPos + 1].bytes, 1, 2)
                = <<OV5640_REG_ISP_FORMAT_MUX_CTRL \div 256,
                    OV5640_REG_ISP_FORMAT_MUX_CTRL % 256>>
           /\ pc = "idle"
           /\ i2cLog[FormatPos + 1].ans # "ok" => ret = I2c(i2cLog[FormatPos + 1].ans)

\* the control write succeeded, the mux write failed with E1, init returned I2c(E1)
C9_Witness ==
    /\ InInit
    /\ pc = "idle"
    /\ Len(i2cLog) = FormatPos + 1
    /\ i2cLog[FormatPos].ans = "ok"
    /\ i2cLog[FormatPos + 1].ans = "E1"
    /\ ret = I2c("E1")

(***************************************************************************)
(* C10: init returns Ok if and only if the identity read delivered the     *)
(* expected identity and the identity read and every baseline, resolution  *)
(* and format write succeeded; as soon as one bus transaction fails init   *)
(* has returned I2c with that failure and issues nothing more, and an      *)
(* identity mismatch has returned InvalidId.                               *)
(***************************************************************************)
C10_SuccessIffAllSucceeded ==
    InInit =>
      /\ pc = "idle" =>
           /\ ret.kind \in {"Ok", "I2c", "InvalidId"}
           /\ ret = Ok <=> (Len(i2cLog) = FormatPos + 1 /\ BusAllGood)
      /\ pc # "idle" =>
           /\ ret = Pending
           /\ BusAllGood
           /\ Len(i2cLog) <= FormatPos
      /\ \A i \in 1..Len(i2cLog) :
           i2cLog[i].ans # "ok" =>
             /\ i = Len(i2cLog)
             /\ pc = "idle"
             /\ ret = I2c(i2cLog[i].ans)
      /\ (Len(i2cLog) >= 2 /\ i2cLog[2].ans = "ok" /\ i2cLog[2].bytes # <<OV5640_ID>>)
           => (pc = "idle" /\ ret.kind = "InvalidId")

\* the first write of the resolution table failed and init returned I2c(E1)
C10_Witness ==
    /\ InInit
    /\ pc = "idle"
    /\ Len(i2cLog) = 2 + BaselineLen + 1
    /\ i2cLog[Len(i2cLog)].ans = "E1"
    /\ \A i \in 1..(Len(i2cLog) - 1) : i2cLog[i].ans = "ok"
    /\ ret = I2c("E1")

(***************************************************************************)
(* C11: within one init call the phases are strictly ordered.  A baseline  *)
(* write is issued only after the identity read succeeded with the         *)
(* expected identity; a resolution write only after every baseline write   *)
(* succeeded; a format write only after every write of the selected table  *)
(* succeeded.  A failed write of resolution entry j is the last bus        *)
(* transaction, after the whole baseline table and entries 0..j-1, and     *)
(* init has returned I2c with that failure.                                *)
(***************************************************************************)
\* position in the log of the last baseline write
BaselineEnd == 2 + Len(OV5640_INITIAL_SETTINGS)

C11_PhaseOrder ==
    InInit =>
      /\ Len(i2cLog) >= 3 =>
           /\ i2cLog[1] = PointerEntry(OV5640_REG_ID, "ok")
           /\ i2cLog[2] = ReadEntry(OV5640_ID)
      /\ \A i \in 3..Len(i2cLog) :
           i <= BaselineEnd =>
             /\ i2cLog[i] = WriteEntry(OV5640_INITIAL_SETTINGS[i - 2][1],
                                       OV5640_INITIAL_SETTINGS[i - 2][2], i2cLog[i].ans)
             /\ \A h \in 3..(i - 1) : i2cLog[h].ans = "ok"
      /\ \A i \in (BaselineEnd + 1)..Len(i2cLog) :
           /\ \A h \in 1..BaselineEnd : i2cLog[h].ans = "ok"
           /\ i < FormatPos =>
                /\ i2cLog[i] = WriteEntry(TableOf[call.resolution][i - BaselineEnd][1],
                                          TableOf[call.resolution][i - BaselineEnd][2],
                                          i2cLog[i].ans)
                /\ i2cLog[i].ans # "ok" =>
                     /\ Len(i2cLog) = i
                     /\ pc = "idle"
                     /\ ret = I2c(i2cLog[i].ans)
           /\ i >= FormatPos => \A h \in 1..(FormatPos - 1) : i2cLog[h].ans = "ok"
      /\ pc = "baseline" => Len(i2cLog) = 2 + idx /\ idx <= Len(OV5640_INITIAL_SETTINGS)
      /\ pc = "resolution" =>
           Len(i2cLog) = BaselineEnd + idx /\ idx <= Len(TableOf[call.resolution])
      /\ pc = "format_00" => Len(i2cLog) = FormatPos - 1

\* XGA (3 entries): resolution entry 2 failed with E2 after the whole baseline
\* table and entries 0 and 1
C11_Witness ==
    /\ InInit
    /\ call.resolution = "Xga1024_768"
    /\ pc = "idle"
    /\ Len(i2cLog) = BaselineEnd + 3
    /\ i2cLog[BaselineEnd + 2].ans = "ok"
    /\ i2cLog[BaselineEnd + 3] = WriteEntry(XGA_1024_768[3][1], XGA_1024_768[3][2], "E2")
    /\ ret = I2c("E2")

(***************************************************************************)
(* C12: when the identity read itself fails, at its address-pointer write  *)
(* or at its one-byte read, init has returned I2c with that failure -      *)
(* never InvalidId - and the failed transaction is the last one: no        *)
(* register of the baseline table, the resolution table or the format      *)
(* step is written.                                                        *)
(***************************************************************************)
C12_IdentityReadFailure ==
    InInit =>
      /\ Len(i2cLog) >= 1 =>
           /\ i2cLog[1] = PointerEntry(OV5640_REG_ID, i2cLog[1].ans)
           /\ i2cLog[1].ans # "ok" =>
                (Len(i2cLog) = 1 /\ pc = "idle" /\ ret = I2c(i2cLog[1].ans))
      /\ Len(i2cLog) >= 2 =>
           /\ i2cLog[2].kind = "read"
           /\ i2cLog[2].ans # "ok" =>
                (Len(i2cLog) = 2 /\ pc = "idle" /\ ret = I2c(i2cLog[2].ans))
      /\ (pc = "idle" /\ ret.kind = "InvalidId") =>
           (Len(i2cLog) = 2 /\ i2cLog[1].ans = "ok" /\ i2cLog[2].ans = "ok")

\* the pointer write succeeded, the one-byte read failed with E2
C12_Witness ==
    /\ InInit
    /\ pc = "idle"
    /\ i2cLog = <<PointerEntry(OV5640_REG_ID, "ok"), FailedReadEntry("E2")>>
    /\ ret = I2c("E2")

(***************************************************************************)
(* C13: every init call ends in FormatApplied or Failed whatever the bus   *)
(* answers.  The sequencer only moves forward through Start,               *)
(* IdentityChecked, BaselineApplied, ResolutionApplied, FormatApplied; a   *)
(* step either issues one more bus transaction or moves to a later state;  *)
(* a terminal state is left only by a new call, which begins at Start;     *)
(* every transaction issued is the one its position in the single pass     *)
(* prescribes, so one call issues at most 2 + N + M + 2 bus transactions.  *)
(***************************************************************************)
\* the sequencer's state, as the specification names it
SequencerState ==
    CASE pc \in {"rr_write", "rr_read"} -> "Start"
      [] pc = "baseline" -> "IdentityChecked"
      [] pc = "resolution" -> "BaselineApplied"
      [] pc \in {"format_00", "format_mux"} -> "ResolutionApplied"
      [] pc = "idle" /\ ret = Ok -> "FormatApplied"
      [] OTHER -> "Failed"

StateRank(s) ==
    CASE s = "Start" -> 0
      [] s = "IdentityChecked" -> 1
      [] s = "BaselineApplied" -> 2
      [] s = "ResolutionApplied" -> 3
      [] s = "FormatApplied" -> 4
      [] s = "Failed" -> 4

\* the same transaction is asked of the bus (whatever the bus answers)
SameRequest(e, x) ==
    /\ e.kind = x.kind
    /\ e.addr = x.addr
    /\ e.len = x.len
    /\ e.kind = "write" => e.bytes = x.bytes

\* 2 + N + M + 2
MaxBusOps == 2 + Len(OV5640_INITIAL_SETTINGS) + Len(TableOf[call.resolution]) + 2

SinglePass ==
    InInit =>
      /\ Len(i2cLog) <= MaxBusOps
      /\ \A i \in 1..Len(i2cLog) :
           SameRequest(i2cLog[i], ExpectedLog(call.format, call.resolution)[i])
      /\ pc = "idle" => SequencerState \in {"FormatApplied", "Failed"}

ForwardOnly ==
    /\ (InInit /\ pc # "idle") =>
         /\ call' = call
         /\ StateRank(SequencerState') >= StateRank(SequencerState)
         /\ \/ /\ Len(i2cLog') = Len(i2cLog) + 1
               /\ SubSeq(i2cLog', 1, Len(i2cLog)) = i2cLog
            \/ /\ i2cLog' = i2cLog
               /\ StateRank(SequencerState') > StateRank(SequencerState)
    /\ (InInit /\ pc = "idle") =>
         /\ pc' = "rr_write"
         /\ i2cLog' = <<>>
         /\ ret' = Pending

C13_SinglePassTerminates ==
    /\ []SinglePass
    /\ [][ForwardOnly]_vars
    /\ (InInit /\ pc # "idle") ~> (InInit /\ pc = "idle")

\* QSXGA (M = 3): the call ended Failed at its last, (2 + N + M + 2)-th transaction
C13_Witness ==
    /\ InInit
    /\ call.resolution = "Qsxga2592_1944"
    /\ pc = "idle"
    /\ Len(i2cLog) = 2 + BaselineLen + 3 + 2
    /\ SequencerState = "Failed"
    /\ ret = I2c("E1")

(***************************************************************************)
(* C14: the control-line operations and the bus operations are framed      *)
(* apart.  Line-set calls are made only by control-line requests, each on  *)
(* the pin the request names (set_rst on reset, set_pwdn on power-down),   *)
(* so init - running, succeeded or failed - has driven no line; and a      *)
(* control-line request issues no bus transaction.                         *)
(***************************************************************************)
C14_FramedApart ==
    /\ Len(pinLog) = Len(pinCalls)
    /\ \A i \in 1..Len(pinLog) :
         i <= Len(pinCalls) => pinLog[i].pin = pinCalls[i].line
    /\ call.name = "set_rst" =>
         (i2cLog = <<>> /\ pinLog[Len(pinLog)].pin = "rst")
    /\ call.name = "set_pwdn" =>
         (i2cLog = <<>> /\ pinLog[Len(pinLog)].pin = "pwdn")

\* reset was asserted and released, then an init failed at a baseline write:
\* the two line-set calls are still all the pins have seen
C14_Witness ==
    /\ pinLog = <<[pin |-> "rst", level |-> "high"], [pin |-> "rst", level |-> "low"]>>
    /\ InInit
    /\ pc = "idle"
    /\ ret.kind = "I2c"
    /\ Len(i2cLog) >= 3

(***************************************************************************)
(* C15: the driver keeps no state between calls.  Whatever calls came      *)
(* before - control-line requests, inits that succeeded or failed part-way *)
(* - an init call starts at the identity read, the transactions it issues  *)
(* are those its (format, resolution) prescribe position by position, it   *)
(* stops at the first failed transaction or identity mismatch, and what it *)
(* returns is a function of its arguments and of the bus's answers during  *)
(* the call.                                                               *)
(***************************************************************************)
\* the transaction at position i of an init(f, r): identity read, baseline
\* table, table of r, format control, format mux
ExpectedRequest(f, r, i) ==
    LET N == Len(OV5640_INITIAL_SETTINGS)
        M == Len(TableOf[r])
        w == IF i <= 2 + N THEN OV5640_INITIAL_SETTINGS[i - 2]
             ELSE IF i <= 2 + N + M THEN TableOf[r][i - 2 - N]
             ELSE IF i = 2 + N + M + 1
                    THEN <<OV5640_REG_FORMAT_00, format_bits(f)>>
                    ELSE <<OV5640_REG_ISP_FORMAT_MUX_CTRL, mux_bits(f)>>
    IN  IF i = 1 THEN PointerEntry(OV5640_REG_ID, "ok")
        ELSE IF i = 2 THEN ReadEntry(OV5640_ID)
        ELSE WriteEntry(w[1], w[2], "ok")

ExpectedLen(r) == 2 + Len(OV5640_INITIAL_SETTINGS) + Len(TableOf[r]) + 2

\* position by position this is the transcript of a complete init
RequestsAreTheTranscript ==
    \A f \in Format, r \in Resolution :
      /\ ExpectedLen(r) = Len(ExpectedLog(f, r))
      /\ \A i \in 1..ExpectedLen(r) : ExpectedRequest(f, r, i) = ExpectedLog(f, r)[i]

\* the bus answered position i of the log so that the call goes on
GoesOn(log, i) ==
    /\ log[i].ans = "ok"
    /\ i = 2 => log[i].bytes = <<OV5640_ID>>

\* what init returns, from its arguments and the bus's answers alone
OutcomeOf(r, log) ==
    IF log = <<>> THEN Pending
    ELSE IF log[Len(log)].ans # "ok" THEN I2c(log[Len(log)].ans)
    ELSE IF Len(log) = 2 /\ log[2].bytes # <<OV5640_ID>> THEN InvalidId(log[2].bytes[1])
    ELSE IF Len(log) = ExpectedLen(r) THEN Ok
    ELSE Pending

C15_Stateless ==
    /\ RequestsAreTheTranscript
    /\ InInit =>
         /\ Len(i2cLog) <= ExpectedLen(call.resolution)
         /\ \A i \in 1..Len(i2cLog) :
              /\ SameRequest(i2cLog[i], ExpectedRequest(call.format, call.resolution, i))
              /\ i < Len(i2cLog) => GoesOn(i2cLog, i)
         /\ ret = OutcomeOf(call.resolution, i2cLog)
         /\ pc = "idle" <=> ret # Pending
         /\ pc = "rr_write" <=> i2cLog = <<>>

\* after control-line requests and an init that ended with a bus failure, a
\* new init stands at the identity read with nothing issued yet
C15_Witness ==
    /\ InInit
    /\ pc = "rr_write"
    /\ i2cLog = <<>>
    /\ ret = Pending
    /\ reply \in BusErrors
    /\ Len(pinCalls) = 2

(***************************************************************************)
(* C16: the error kinds are partitioned by operation.  init, read_reg and  *)
(* write_reg return Ok, a bus error or (init only) an identity mismatch,   *)
(* never Gpio; InvalidId comes only from init, right after a successful    *)
(* identity read that delivered another byte than the expected one, and    *)
(* carries that byte; set_rst and set_pwdn return Ok or Gpio, never a bus  *)
(* error or an identity mismatch.                                          *)
(***************************************************************************)
BusCalls == {"init", "read_reg", "write_reg"}
PinOps == {"set_rst", "set_pwdn"}

C16_ErrorPartition ==
    /\ call.name \in BusCalls => ret.kind \in {"pending", "Ok", "I2c", "InvalidId"}
    /\ call.name \in {"read_reg", "write_reg"} => ret.kind # "InvalidId"
    /\ call.name \in PinOps => ret.kind \in {"Ok", "Gpio"}
    /\ ret.kind = "Gpio" => call.name \in PinOps
    /\ ret.kind = "I2c" =>
         /\ call.name \in BusCalls
         /\ i2cLog # <<>>
         /\ i2cLog[Len(i2cLog)].ans = ret.err
         /\ ret.err \in BusErrors
    /\ ret.kind = "InvalidId" =>
         /\ InInit
         /\ ret.id # OV5640_ID
         /\ i2cLog = <<PointerEntry(OV5640_REG_ID, "ok"), ReadEntry(ret.id)>>

\* a direct read of the identity register that delivered another byte than
\* the expected identity returned that byte, not an identity mismatch
C16_Witness ==
    /\ call = [name |-> "read_reg", reg |-> OV5640_REG_ID]
    /\ pc = "idle"
    /\ i2cLog = <<PointerEntry(OV5640_REG_ID, "ok"), ReadEntry(255)>>
    /\ ret = OkVal(255)
    /\ pinCalls # <<>>

(***************************************************************************)
(* C17: the format-control byte alone identifies the selection.  There are *)
(* 14 formats (4 Raw, 6 RGB565, 4 YUV422) and they give 14 different       *)
(* control bytes: Raw 0x00..0x03, YUV422 0x30..0x33, RGB565 0x60..0x65; so *)
(* the byte init wrote to the format-control register is produced by the   *)
(* requested format and by no other.                                       *)
(***************************************************************************)
\* the formats that produce control byte b
FormatsOf(b) == {f \in Format : format_bits(f) = b}

\* the control bytes of a family
ControlBytes(fam) == {format_bits(f) : f \in {g \in Format : g.family = fam}}

ControlByteInjective ==
    /\ Cardinality(Format) = 14
    /\ Cardinality({f \in Format : f.family = "Raw"}) = 4
    /\ Cardinality({f \in Format : f.family = "Rgb565"}) = 6
    /\ Cardinality({f \in Format : f.family = "Yuv422"}) = 4
    /\ \A f1, f2 \in Format : format_bits(f1) = format_bits(f2) => f1 = f2
    /\ Cardinality({format_bits(f) : f \in Format}) = 14
    /\ ControlBytes("Raw") = 0..3
    /\ ControlBytes("Yuv422") = 48..51
    /\ ControlBytes("Rgb565") = 96..101

C17_ControlByteIdentifies ==
    /\ ControlByteInjective
    /\ (InInit /\ Len(i2cLog) >= FormatPos) =>
         FormatsOf(i2cLog[FormatPos].bytes[3]) = {call.format}

\* init has written 0x33 to the format-control register for Yuv422(Vyuy),
\* whose ordering code 3 also occurs in the two other families
C17_Witness ==
    /\ InInit
    /\ call.format = [family |-> "Yuv422", order |-> "Vyuy"]
    /\ Len(i2cLog) = FormatPos
    /\ i2cLog[FormatPos].bytes = <<OV5640_REG_FORMAT_00 \div 256, OV5640_REG_FORMAT_00 % 256, 51>>

=============================================================================
